---------------------------- MODULE Spec2Model ----------------------------
(***************************************************************************)
(* Loss strategies of larnd_infill (src/ME/losses.py): the strategy        *)
(* factory init_loss_func, the PixelWise / GapWise / PlaneWise / Chamfer   *)
(* constructors, the coordinate selectors, the subset loss evaluators, the *)
(* gap range grouper and the calc_loss methods.                            *)
(*                                                                         *)
(* Numbers.  Tensor entries, weights and losses are floats in the code.    *)
(* They are modelled as exact rationals <<n, d>> in lowest terms, d > 0,   *)
(* extended with the float specials NaN = <<0,0>>, +inf = <<1,0>> and      *)
(* -inf = <<-1,0>> that a tensor division by zero produces.  Rounding is   *)
(* not modelled.  Python-level exceptions are modelled as the tag of the   *)
(* exception class in the field "raised" of an operator's outcome.         *)
(*                                                                         *)
(* Tensors.  A sparse tensor is a function from its coordinates            *)
(* <<batch, x, y, z>> to the value of its one feature channel (for the     *)
(* input tensor: the trailing infill-mask channel).  The row order of the  *)
(* code's tensors is not modelled: every quantity computed from a          *)
(* coordinate selection is a sum over its rows.                            *)
(***************************************************************************)
EXTENDS Integers, Sequences, FiniteSets, TLC

VARIABLES
    conf,       \* the configuration namedtuple handed to the factory / constructor
    loss,       \* the strategy instance (self), NoInstance before construction
    raised,     \* class of the exception the last call raised, "none" otherwise
    s_pred,     \* predicted sparse tensor
    s_in,       \* input sparse tensor (feature = infill mask channel)
    s_target,   \* target sparse tensor
    data,       \* batch dictionary: data.mask_x, data.mask_z (one marker set per sample)
    args,       \* arguments of a direct call of a helper method
    ret,        \* what the last call returned (and the locals it went through)
    pc          \* the call that completed last, "init" before any

vars == <<conf, loss, raised, s_pred, s_in, s_target, data, args, ret, pc>>

-----------------------------------------------------------------------------
(* Extended rational arithmetic (float semantics without rounding).        *)

RECURSIVE GCD(_, _)
GCD(a, b) == IF b = 0 THEN a ELSE GCD(b, a % b)

IAbs(n) == IF n < 0 THEN -n ELSE n
Sgn(n) == IF n < 0 THEN -1 ELSE IF n > 0 THEN 1 ELSE 0

\* n/d in lowest terms; d = 0 gives NaN (n = 0) or a signed infinity.
Frac(n, d) ==
    IF d = 0 THEN <<Sgn(n), 0>>
    ELSE LET g == GCD(IAbs(n), IAbs(d))
             s == IF d < 0 THEN -1 ELSE 1
         IN  <<(s * n) \div g, (s * d) \div g>>

Q(n) == <<n, 1>>
Zero == <<0, 1>>
NaN == <<0, 0>>

IsNaN(a) == a = NaN
IsInf(a) == a[2] = 0 /\ a[1] # 0
IsFinite(a) == a[2] > 0

FNeg(a) == <<-a[1], a[2]>>

FAdd(a, b) ==
    IF IsNaN(a) \/ IsNaN(b) THEN NaN
    ELSE IF IsInf(a) /\ IsInf(b) THEN (IF a = b THEN a ELSE NaN)
    ELSE IF IsInf(a) THEN a
    ELSE IF IsInf(b) THEN b
    ELSE Frac(a[1] * b[2] + b[1] * a[2], a[2] * b[2])

FSub(a, b) == FAdd(a, FNeg(b))

FMul(a, b) ==
    IF IsNaN(a) \/ IsNaN(b) THEN NaN
    ELSE IF IsInf(a) \/ IsInf(b) THEN <<Sgn(a[1]) * Sgn(b[1]), 0>>
    ELSE Frac(a[1] * b[1], a[2] * b[2])

\* float division: x/0 is NaN for x = 0 and a signed infinity otherwise.
FDiv(a, b) ==
    IF IsNaN(a) \/ IsNaN(b) THEN NaN
    ELSE IF IsInf(a) /\ IsInf(b) THEN NaN
    ELSE IF IsInf(a) THEN <<a[1] * (IF b[1] < 0 THEN -1 ELSE 1), 0>>
    ELSE IF IsInf(b) THEN Zero
    ELSE Frac(a[1] * b[2], a[2] * b[1])

FAbs(a) == <<IAbs(a[1]), a[2]>>

\* a < b on non-NaN values
FLess(a, b) ==
    IF IsInf(a) \/ IsInf(b) THEN a # b /\ (a = <<-1, 0>> \/ b = <<1, 0>>)
    ELSE a[1] * b[2] < b[1] * a[2]

FMax(a, b) == IF IsNaN(a) \/ IsNaN(b) THEN NaN ELSE IF FLess(a, b) THEN b ELSE a
FMin(a, b) == IF IsNaN(a) \/ IsNaN(b) THEN NaN ELSE IF FLess(b, a) THEN b ELSE a

\* torch.clamp(v, min=lo, max=hi): min(max(v, lo), hi); with lo > hi every entry is hi.
clamp(v, lo, hi) == FMin(FMax(v, lo), hi)

\* floor of a finite non-negative rational
Floor(a) == a[1] \div a[2]


-----------------------------------------------------------------------------
(* Sparse tensors and torch criteria.                                      *)

RECURSIVE SumOver(_, _)
\* sum of the entries v[i], i \in S (0 for the empty selection)
SumOver(v, S) ==
    IF S = {} THEN Zero
    ELSE LET i == CHOOSE j \in S : TRUE
         IN  FAdd(v[i], SumOver(v, S \ {i}))

\* tensor.sum()
tensor_sum(v) == SumOver(v, DOMAIN v)

\* s.features_at_coordinates(coords)[...].squeeze(): one value per queried
\* coordinate, 0 where the tensor has no such coordinate.
features_at_coordinates(s, coords) ==
    [c \in coords |-> IF c \in DOMAIN s THEN Q(s[c]) ELSE Zero]

\* a 0-d tensor
Scalar(x) == [i \in {<<>>} |-> x]

\* log(1 + exp(-a)), a >= 0: the 4-decimal value at a = 0, 1, 2, 3, 4 and the
\* chord between neighbouring integers; 0 from a = 5 on.
SoftplusKnot(k) ==
    CASE k = 0 -> 6931 [] k = 1 -> 3133 [] k = 2 -> 1269
      [] k = 3 -> 486  [] k = 4 -> 181  [] OTHER -> 0

Log1pExpNeg(a) ==
    IF ~IsFinite(a) THEN (IF IsNaN(a) THEN NaN ELSE Zero)
    ELSE LET k == Floor(a)
             t == FSub(a, Q(k))
             lo == Frac(SoftplusKnot(k), 10000)
             hi == Frac(SoftplusKnot(k + 1), 10000)
         IN  FAdd(lo, FMul(t, FSub(hi, lo)))

\* the unreduced loss of one entry
ElementLoss(fn, x, y) ==
    CASE fn = "L1Loss" -> FAbs(FSub(x, y))
      [] fn = "MSELoss" -> FMul(FSub(x, y), FSub(x, y))
      [] fn = "BCEWithLogitsLoss" ->
            FAdd(FSub(FMax(x, Zero), FMul(x, y)), Log1pExpNeg(FAbs(x)))

\* nn.<fn>(reduction=...)(x, y) for two tensors of one shape: the mean (the
\* default reduction; 0/0 = NaN over no entries) or the sum of ElementLoss.
nn_loss(fn, reduction, x, y) ==
    LET e == [i \in DOMAIN x |-> ElementLoss(fn, x[i], y[i])]
        s == tensor_sum(e)
    IN  IF reduction = "sum" THEN s
        ELSE FDiv(s, Q(Cardinality(DOMAIN x)))

\* rows of a coordinate selection that belong to sample i_batch:
\* coords[coords[:, 0] == i_batch]
BatchRows(coords, i_batch) == {c \in coords : c[1] = i_batch}

-----------------------------------------------------------------------------
(* Python values.                                                          *)

\* None, and a number where None is possible (conf.adc_threshold)
PyNone == <<>>
PyNum(n) == <<n>>

\* getattr(conf, name, default)
getattr(c, name, default) == IF name \in DOMAIN c THEN c[name] ELSE default

\* a constructor that skips the override_opts block
Mutant_apply_override_opts(c, override_opts) == c

\* the override_opts block of every constructor: a modified copy of conf,
\* conf itself when override_opts is empty
apply_override_opts(c, override_opts) ==
    IF DOMAIN override_opts # {}
    THEN [f \in DOMAIN c \cup DOMAIN override_opts |->
            IF f \in DOMAIN override_opts THEN override_opts[f] ELSE c[f]]
    ELSE c

\* the set of the entries of a list
ListSet(l) == {l[i] : i \in DOMAIN l}

NoInstance == [class |-> "none"]
NoRet == [kind |-> "none"]
NoArgs == [kind |-> "none"]
NoTensor == <<>>
NoData == [mask_x |-> <<>>, mask_z |-> <<>>]
NoConf == <<>>

-----------------------------------------------------------------------------
(* PixelWise                                                               *)

PixelWise_init(conf0, override_opts) ==
    LET c == apply_override_opts(conf0, override_opts)
        lf == c["loss_func"]
        known == lf \in {"PixelWise_L1Loss", "PixelWise_MSELoss",
                         "PixelWise_BCEWithLogitsLoss"}
        fn == CASE lf = "PixelWise_L1Loss" -> "L1Loss"
                [] lf = "PixelWise_MSELoss" -> "MSELoss"
                [] lf = "PixelWise_BCEWithLogitsLoss" -> "BCEWithLogitsLoss"
                [] OTHER -> "unset"
    IN  IF ~known
        THEN [raised |-> "NotImplementedError",
              message |-> <<"loss_func={} not valid", lf>>, self |-> NoInstance]
        ELSE [raised |-> "none", message |-> <<>>,
              self |-> [class |-> "PixelWise",
                        crit |-> fn,
                        crit_sumreduction |-> fn,
                        lambda_loss_infill_zero |-> getattr(c, "loss_infill_zero_weight", 0),
                        lambda_loss_infill_nonzero |-> getattr(c, "loss_infill_nonzero_weight", 0),
                        lambda_loss_active_zero |-> getattr(c, "loss_active_zero_weight", 0),
                        lambda_loss_active_nonzero |-> getattr(c, "loss_active_nonzero_weight", 0),
                        lambda_loss_infill |-> getattr(c, "loss_infill_weight", 0),
                        lambda_loss_active |-> getattr(c, "loss_active_weight", 0),
                        lambda_loss_infill_sum |-> getattr(c, "loss_infill_sum_weight", 0)]]

\* a name table with the weights of infill and infill_sum exchanged
MutantPixelWise_get_names_scalefactors(self) ==
    [name \in {"infill_zero", "infill_nonzero", "active_zero", "active_nonzero", "infill", "active", "infill_sum"} |->
        CASE name = "infill_zero" -> self.lambda_loss_infill_zero
          [] name = "infill_nonzero" -> self.lambda_loss_infill_nonzero
          [] name = "active_zero" -> self.lambda_loss_active_zero
          [] name = "active_nonzero" -> self.lambda_loss_active_nonzero
          [] name = "infill" -> self.lambda_loss_infill_sum
          [] name = "active" -> self.lambda_loss_active
          [] name = "infill_sum" -> self.lambda_loss_infill]

\* the weights as calc_loss reads them: the attribute behind each
\* `if self.lambda_loss_<name>:` and each losses["<name>"]
PixelWise_lambdas(self) ==
    [name \in {"infill_zero", "infill_nonzero", "active_zero", "active_nonzero", "infill", "active", "infill_sum"} |->
        CASE name = "infill_zero" -> self.lambda_loss_infill_zero
          [] name = "infill_nonzero" -> self.lambda_loss_infill_nonzero
          [] name = "active_zero" -> self.lambda_loss_active_zero
          [] name = "active_nonzero" -> self.lambda_loss_active_nonzero
          [] name = "infill" -> self.lambda_loss_infill
          [] name = "active" -> self.lambda_loss_active
          [] name = "infill_sum" -> self.lambda_loss_infill_sum]

PixelWise_get_names_scalefactors(self) ==
    [name \in {"infill_zero", "infill_nonzero", "active_zero", "active_nonzero",
               "infill", "active", "infill_sum"} |->
        CASE name = "infill_zero" -> self.lambda_loss_infill_zero
          [] name = "infill_nonzero" -> self.lambda_loss_infill_nonzero
          [] name = "active_zero" -> self.lambda_loss_active_zero
          [] name = "active_nonzero" -> self.lambda_loss_active_nonzero
          [] name = "infill" -> self.lambda_loss_infill
          [] name = "active" -> self.lambda_loss_active
          [] name = "infill_sum" -> self.lambda_loss_infill_sum]

\* a selector whose active set forgets the ~ of the mask
Mutant_get_infill_active_coords(sin, starget) ==
    LET s_in_infill_mask == {c \in DOMAIN sin : sin[c] = 1}
        infill_coords == s_in_infill_mask
        active_coords == DOMAIN sin
        tz(coords) == {c \in coords : features_at_coordinates(starget, coords)[c] = Zero}
    IN  [infill_coords |-> infill_coords,
         active_coords |-> active_coords,
         infill_coords_zero |-> tz(infill_coords),
         infill_coords_nonzero |-> infill_coords \ tz(infill_coords),
         active_coords_zero |-> tz(active_coords),
         active_coords_nonzero |-> active_coords \ tz(active_coords)]

_get_infill_active_coords(sin, starget) ==
    LET s_in_infill_mask == {c \in DOMAIN sin : sin[c] = 1}
        infill_coords == s_in_infill_mask
        active_coords == DOMAIN sin \ s_in_infill_mask
        infill_coords_zero_mask ==
            {c \in infill_coords :
                features_at_coordinates(starget, infill_coords)[c] = Zero}
        active_coords_zero_mask ==
            {c \in active_coords :
                features_at_coordinates(starget, active_coords)[c] = Zero}
    IN  [infill_coords |-> infill_coords,
         active_coords |-> active_coords,
         infill_coords_zero |-> infill_coords_zero_mask,
         infill_coords_nonzero |-> infill_coords \ infill_coords_zero_mask,
         active_coords_zero |-> active_coords_zero_mask,
         active_coords_nonzero |-> active_coords \ active_coords_zero_mask]

\* an evaluator without the empty-subset branch
MutantPixelWise_get_loss_at_coords(self, spred, starget, coords) ==
    nn_loss(self.crit, "mean",
            features_at_coordinates(spred, coords),
            features_at_coordinates(starget, coords))

PixelWise_get_loss_at_coords(self, spred, starget, coords) ==
    IF Cardinality(coords) # 0
    THEN nn_loss(self.crit, "mean",
                 features_at_coordinates(spred, coords),
                 features_at_coordinates(starget, coords))
    ELSE nn_loss(self.crit_sumreduction, "sum",
                 features_at_coordinates(spred, coords),
                 features_at_coordinates(starget, coords))

PixelWise_get_summed_loss_at_coords(self, spred, starget, coords) ==
    IF Cardinality(coords) # 0
    THEN nn_loss(self.crit, "mean",
                 Scalar(FDiv(tensor_sum(features_at_coordinates(spred, coords)),
                             Q(Cardinality(coords)))),
                 Scalar(FDiv(tensor_sum(features_at_coordinates(starget, coords)),
                             Q(Cardinality(coords)))))
    ELSE nn_loss(self.crit_sumreduction, "sum",
                 Scalar(tensor_sum(features_at_coordinates(spred, coords))),
                 Scalar(tensor_sum(features_at_coordinates(starget, coords))))

\* "average each loss over batch and calculate total loss": the chain of
\* `if self.lambda_...:` blocks that ends every calc_loss.  order lists the term
\* names in the order of the blocks, per_sample[name][i] is the entry the
\* per-sample loop appended for sample i.  sum(list) / batch_size is a Python
\* int division 0 / 0 when the batch is empty.
RECURSIVE loss_tot_upto(_, _, _, _)
loss_tot_upto(order, k, scalefactors, losses) ==
    IF k = 0 THEN Zero
    ELSE LET name == order[k]
             before == loss_tot_upto(order, k - 1, scalefactors, losses)
         IN  IF scalefactors[name] # 0
             THEN FAdd(before, FMul(Q(scalefactors[name]), losses[name]))
             ELSE before

\* a batch average that divides by the number of non-empty samples only
Mutant_average_over_batch(order, scalefactors, per_sample, batch_size) ==
    LET enabled == {order[k] : k \in {j \in 1..Len(order) : scalefactors[order[j]] # 0}}
        used(name) == {i \in DOMAIN per_sample[name] : per_sample[name][i] # Zero}
        losses == [name \in enabled |->
                     FDiv(tensor_sum(per_sample[name]), Q(Cardinality(used(name))))]
    IN  [raised |-> "none",
         loss_tot |-> loss_tot_upto(order, Len(order), scalefactors, losses),
         losses |-> losses]

average_over_batch(order, scalefactors, per_sample, batch_size) ==
    LET enabled == {order[k] : k \in {j \in 1..Len(order) : scalefactors[order[j]] # 0}}
        losses == [name \in enabled |->
                     FDiv(tensor_sum(per_sample[name]), Q(batch_size))]
    IN  IF enabled # {} /\ batch_size = 0
        THEN [raised |-> "ZeroDivisionError", loss_tot |-> Zero, losses |-> <<>>]
        ELSE [raised |-> "none",
              loss_tot |-> loss_tot_upto(order, Len(order), scalefactors, losses),
              losses |-> losses]

\* the first exception of a sequence of steps run in order ("none" if none)
RECURSIVE first_raised(_)
first_raised(steps) ==
    IF steps = <<>> THEN "none"
    ELSE IF Head(steps) # "none" THEN Head(steps)
    ELSE first_raised(Tail(steps))

\* the criterion applications of one more pass of the loop added to a count
add_calls(count, entry) ==
    [name \in DOMAIN count |-> count[name] + entry.calls[name]]

\* the criterion applications of the first n passes of the loop
RECURSIVE calls_upto(_, _, _)
calls_upto(sf, samples, n) ==
    IF n = 0 THEN [name \in DOMAIN sf |-> 0]
    ELSE add_calls(calls_upto(sf, samples, n - 1), samples[n - 1])

\* the number of times each term's criterion was applied by the passes of the
\* loop that ran: the loop stops at the first pass that raises
calls_made(sf, samples, batch_size) ==
    calls_upto(sf, samples,
               Cardinality({i \in 0..(batch_size - 1) :
                               \A j \in 0..(i - 1) : samples[j].raised = "none"}))

with_calls(out, calls) ==
    [raised |-> out.raised, loss_tot |-> out.loss_tot, losses |-> out.losses,
     calls |-> calls]

\* a loop that leaves the samples with nothing but zero entries out of the
\* batch size it averages over
Mutant_batch_loop(order, sf, samples, batch_size) ==
    LET enabled == {name \in DOMAIN sf : sf[name] # 0}
        counted == {i \in 0..(batch_size - 1) :
                       \E name \in enabled : samples[i].vals[name] # Zero}
        per_sample == [name \in enabled |->
                         [i_batch \in 0..(batch_size - 1) |-> samples[i_batch].vals[name]]]
    IN  with_calls(average_over_batch(order, sf, per_sample, Cardinality(counted)),
                   calls_made(sf, samples, batch_size))

\* the loop `for i_batch in range(batch_size)` once every sample is done,
\* followed by the averaging block.  samples[i] is what the loop body did for
\* sample i: the exception it raised, the entries it appended and the
\* criterion applications it made.
batch_loop(order, sf, samples, batch_size) ==
    LET in_loop == first_raised([i \in 1..batch_size |-> samples[i - 1].raised])
        enabled == {name \in DOMAIN sf : sf[name] # 0}
        per_sample == [name \in enabled |->
                         [i_batch \in 0..(batch_size - 1) |-> samples[i_batch].vals[name]]]
    IN  with_calls(IF in_loop # "none"
                   THEN [raised |-> in_loop, loss_tot |-> Zero, losses |-> <<>>]
                   ELSE average_over_batch(order, sf, per_sample, batch_size),
                   calls_made(sf, samples, batch_size))

PixelWiseOrder ==
    <<"infill_zero", "infill_nonzero", "infill", "infill_sum",
      "active_zero", "active_nonzero", "active">>

\* what one pass of the loop body leaves behind: the value appended for each
\* term and the number of times the term's criterion was applied
pixel_entry(terms) ==
    [raised |-> "none",
     vals |-> [name \in DOMAIN terms |-> terms[name].val],
     calls |-> [name \in DOMAIN terms |-> terms[name].calls]]

\* a loop body that evaluates every term, whatever its scale factor
MutantPixelWise_sample(self, spred, starget, sel, sf, i_batch) ==
    pixel_entry(
        [name \in DOMAIN sf |->
            [calls |-> 1,
             val |-> PixelWise_get_loss_at_coords(
                         self, spred, starget,
                         BatchRows(IF name \in {"active_zero", "active_nonzero", "active"}
                                   THEN sel.active_coords ELSE sel.infill_coords,
                                   i_batch))]])

\* the loop body for sample i_batch: a term is evaluated only under
\* `if self.lambda_loss_<name>:`
PixelWise_sample(self, spred, starget, sel, sf, i_batch) ==
    pixel_entry(
        [name \in DOMAIN sf |->
            IF sf[name] = 0 THEN [val |-> Zero, calls |-> 0]
            ELSE [calls |-> 1,
                  val |->
                    IF name = "infill_sum"
                    THEN PixelWise_get_summed_loss_at_coords(
                             self, spred, starget, BatchRows(sel.infill_coords, i_batch))
                    ELSE PixelWise_get_loss_at_coords(
                             self, spred, starget,
                             BatchRows(CASE name = "infill_zero" -> sel.infill_coords_zero
                                         [] name = "infill_nonzero" -> sel.infill_coords_nonzero
                                         [] name = "infill" -> sel.infill_coords
                                         [] name = "active_zero" -> sel.active_coords_zero
                                         [] name = "active_nonzero" -> sel.active_coords_nonzero
                                         [] name = "active" -> sel.active_coords,
                                       i_batch))]])

PixelWise_loop(self, spred, starget, d, sel, sf) ==
    batch_loop(PixelWiseOrder, sf,
               [i_batch \in 0..(Len(d.mask_x) - 1) |->
                   PixelWise_sample(self, spred, starget, sel, sf, i_batch)],
               Len(d.mask_x))

\* returns [raised, loss_tot, losses, calls]
PixelWise_calc_loss(self, spred, sin, starget, d) ==
    PixelWise_loop(self, spred, starget, d,
                   _get_infill_active_coords(sin, starget),
                   PixelWise_lambdas(self))

-----------------------------------------------------------------------------
(* GapWise                                                                 *)

\* ascending list of a finite set of integers: sorted(set(nums))
RECURSIVE sorted(_)
sorted(S) ==
    IF S = {} THEN <<>>
    ELSE LET m == CHOOSE x \in S : \A y \in S : x <= y
         IN  <<m>> \o sorted(S \ {m})

\* sum(discontinuities, []) for the first k adjacent pairs of nums
RECURSIVE discontinuities(_, _)
discontinuities(nums, k) ==
    IF k = 0 THEN <<>>
    ELSE discontinuities(nums, k - 1) \o
         (IF nums[k] + 1 < nums[k + 1] THEN <<nums[k], nums[k + 1]>> ELSE <<>>)

\* a grouper that opens a new range at every step, consecutive or not
Mutant_get_edge_ranges(nums0) ==
    LET nums == sorted({nums0[i] : i \in DOMAIN nums0})
    IN  [k \in 1..Len(nums) |-> <<nums[k], nums[k]>>]

\* nums0 is a list, in any order and with repetitions
_get_edge_ranges(nums0) ==
    LET nums == sorted({nums0[i] : i \in DOMAIN nums0})
        n == Len(nums)
        edges == SubSeq(nums, 1, IF n = 0 THEN 0 ELSE 1)
                 \o discontinuities(nums, IF n = 0 THEN 0 ELSE n - 1)
                 \o SubSeq(nums, IF n = 0 THEN 1 ELSE n, n)
    IN  \* list(zip(edges, edges)): consecutive pairs drawn from one iterator
        [k \in 1..(Len(edges) \div 2) |-> <<edges[2 * k - 1], edges[2 * k]>>]

GapWise_init(conf0, override_opts) ==
    LET c == apply_override_opts(conf0, override_opts)
        lf == c["loss_func"]
        crit_adc == CASE lf \in {"GapWise_L1Loss", "GapWise_L1Loss_MSELossPixelWise"} -> "L1Loss"
                      [] lf = "GapWise_MSELoss" -> "MSELoss"
                      [] OTHER -> "unset"
        crit_adc_pixelwise ==
                    CASE lf = "GapWise_L1Loss" -> "L1Loss"
                      [] lf \in {"GapWise_MSELoss", "GapWise_L1Loss_MSELossPixelWise"} -> "MSELoss"
                      [] OTHER -> "unset"
        x_npixel == getattr(c, "loss_x_gaps_npixel_weight", 0)
        z_npixel == getattr(c, "loss_z_gaps_npixel_weight", 0)
    IN  IF "adc_threshold" \notin DOMAIN c
        THEN [raised |-> "AttributeError", message |-> <<"adc_threshold">>,
              self |-> NoInstance]
        ELSE IF \/ c["adc_threshold"] = PyNone
                \/ (c["adc_threshold"] = PyNum(0) /\ (x_npixel # 0 \/ z_npixel # 0))
        THEN [raised |-> "ValueError",
              message |-> <<"Need to have an adc threshold set and >0">>,
              self |-> NoInstance]
        ELSE [raised |-> "none", message |-> <<>>,
              self |-> [class |-> "GapWise",
                        crit_adc |-> crit_adc,
                        crit_adc_sumreduction |-> crit_adc,
                        crit_npixel |-> crit_adc,
                        crit_adc_pixelwise |-> crit_adc_pixelwise,
                        crit_adc_pixelwise_sumreduction |-> crit_adc_pixelwise,
                        adc_threshold |-> c["adc_threshold"],
                        lambda_loss_infill_zero |-> getattr(c, "loss_infill_zero_weight", 0),
                        lambda_loss_infill_nonzero |-> getattr(c, "loss_infill_nonzero_weight", 0),
                        lambda_loss_infill |-> getattr(c, "loss_infill_weight", 0),
                        lambda_loss_x_gaps_adc |-> getattr(c, "loss_x_gaps_adc_weight", 0),
                        lambda_loss_x_gaps_npixel |-> x_npixel,
                        lambda_loss_z_gaps_adc |-> getattr(c, "loss_z_gaps_adc_weight", 0),
                        lambda_loss_z_gaps_npixel |-> z_npixel]]

\* the weights as calc_loss reads them: the attribute behind each
\* `if self.lambda_loss_<name>:` and each losses["<name>"]
GapWise_lambdas(self) ==
    [name \in {"infill_zero", "infill_nonzero", "infill", "x_gaps_adc", "x_gaps_npixel", "z_gaps_adc", "z_gaps_npixel"} |->
        CASE name = "infill_zero" -> self.lambda_loss_infill_zero
          [] name = "infill_nonzero" -> self.lambda_loss_infill_nonzero
          [] name = "infill" -> self.lambda_loss_infill
          [] name = "x_gaps_adc" -> self.lambda_loss_x_gaps_adc
          [] name = "x_gaps_npixel" -> self.lambda_loss_x_gaps_npixel
          [] name = "z_gaps_adc" -> self.lambda_loss_z_gaps_adc
          [] name = "z_gaps_npixel" -> self.lambda_loss_z_gaps_npixel]

GapWise_get_names_scalefactors(self) ==
    [name \in {"infill_zero", "infill_nonzero", "infill", "x_gaps_adc",
               "x_gaps_npixel", "z_gaps_adc", "z_gaps_npixel"} |->
        CASE name = "infill_zero" -> self.lambda_loss_infill_zero
          [] name = "infill_nonzero" -> self.lambda_loss_infill_nonzero
          [] name = "infill" -> self.lambda_loss_infill
          [] name = "x_gaps_adc" -> self.lambda_loss_x_gaps_adc
          [] name = "x_gaps_npixel" -> self.lambda_loss_x_gaps_npixel
          [] name = "z_gaps_adc" -> self.lambda_loss_z_gaps_adc
          [] name = "z_gaps_npixel" -> self.lambda_loss_z_gaps_npixel]

\* GapWise._get_infill_coords and PlaneWise._get_infill_coords (same body)
_get_infill_coords(sin, starget) ==
    LET s_in_infill_mask == {c \in DOMAIN sin : sin[c] = 1}
        infill_coords == s_in_infill_mask
        infill_coords_zero_mask ==
            {c \in infill_coords :
                features_at_coordinates(starget, infill_coords)[c] = Zero}
    IN  [infill_coords |-> infill_coords,
         infill_coords_zero |-> infill_coords_zero_mask,
         infill_coords_nonzero |-> infill_coords \ infill_coords_zero_mask]

\* a criterion attribute the constructor never set raises AttributeError
GapWise_get_loss_at_coords(self, spred, starget, coords) ==
    IF self.crit_adc_pixelwise = "unset"
    THEN [raised |-> "AttributeError", val |-> Zero, calls |-> 0]
    ELSE [raised |-> "none", calls |-> 1,
          val |-> IF Cardinality(coords) # 0
                  THEN nn_loss(self.crit_adc_pixelwise, "mean",
                               features_at_coordinates(spred, coords),
                               features_at_coordinates(starget, coords))
                  ELSE nn_loss(self.crit_adc_pixelwise_sumreduction, "sum",
                               features_at_coordinates(spred, coords),
                               features_at_coordinates(starget, coords))]

\* torch.clamp(features, min=0.0, max=adc_threshold).sum() / adc_threshold
clamped_count(s, coords, adc_threshold) ==
    LET f == features_at_coordinates(s, coords)
        thr == Q(adc_threshold[1])
    IN  FDiv(tensor_sum([c \in coords |-> clamp(f[c], Zero, thr)]), thr)

\* a row selection that compares with the start of the range only
Mutant_gap_rows(infill_coords, coord_idx, range) ==
    {c \in infill_coords : c[coord_idx + 1] = range[1]}

\* the set of rows of infill_coords whose axis value lies in start..end:
\* infill_coords[gap_mask.type(torch.bool)]
gap_rows(infill_coords, coord_idx, range) ==
    {c \in infill_coords : c[coord_idx + 1] \in range[1]..range[2]}

mean_of(list) == FDiv(tensor_sum(list), Q(Cardinality(DOMAIN list)))

\* a gap loss that groups every marker of the sample, present or not
Mutant_get_gap_losses(self, spred, starget, gaps, infill_coords, coord_idx, skip_adc, skip_npixel) ==
    LET active_gap_coords == gaps
        gap_ranges == _get_edge_ranges(sorted(active_gap_coords))
    IN  [raised |-> "none", adc |-> Zero, npixel |-> Zero,
         active_gap_coords |-> active_gap_coords, gap_ranges |-> gap_ranges,
         gap_coords |-> [k \in DOMAIN gap_ranges |->
                            gap_rows(infill_coords, coord_idx, gap_ranges[k])]]

\* a gap loss that falls back on a token marker when no marker is active:
\* active_gap_coords = [next(iter(gaps))]
MutantToken_get_gap_losses(self, spred, starget, gaps, infill_coords, coord_idx, skip_adc, skip_npixel) ==
    LET present == {c[coord_idx + 1] : c \in infill_coords} \cap gaps
        active_gap_coords == IF present = {} /\ gaps # {}
                             THEN {CHOOSE g \in gaps : TRUE} ELSE present
        gap_ranges == _get_edge_ranges(sorted(active_gap_coords))
        gap_coords == [k \in DOMAIN gap_ranges |->
                          gap_rows(infill_coords, coord_idx, gap_ranges[k])]
        n(k) == Q(Cardinality(gap_coords[k]))
        gap_losses_adc ==
            [k \in DOMAIN gap_ranges |->
                nn_loss(self.crit_adc, "mean",
                    Scalar(FDiv(tensor_sum(features_at_coordinates(spred, gap_coords[k])),
                                n(k))),
                    Scalar(FDiv(tensor_sum(features_at_coordinates(starget, gap_coords[k])),
                                n(k))))]
    IN  [raised |-> "none",
         adc |-> IF ~skip_adc THEN mean_of(gap_losses_adc) ELSE Zero,
         npixel |-> Zero,
         active_gap_coords |-> active_gap_coords,
         gap_ranges |-> gap_ranges,
         gap_coords |-> gap_coords]

_get_gap_losses(self, spred, starget, gaps, infill_coords, coord_idx, skip_adc, skip_npixel) ==
    LET active_gap_coords == {c[coord_idx + 1] : c \in infill_coords} \cap gaps
        \* torch.unique hands the values over in ascending order
        gap_ranges == _get_edge_ranges(sorted(active_gap_coords))
        gap_coords == [k \in DOMAIN gap_ranges |->
                          gap_rows(infill_coords, coord_idx, gap_ranges[k])]
        n(k) == Q(Cardinality(gap_coords[k]))
        gap_losses_adc ==
            IF skip_adc THEN <<>> ELSE
            [k \in DOMAIN gap_ranges |->
                nn_loss(self.crit_adc, "mean",
                    Scalar(FDiv(tensor_sum(features_at_coordinates(spred, gap_coords[k])),
                                n(k))),
                    Scalar(FDiv(tensor_sum(features_at_coordinates(starget, gap_coords[k])),
                                n(k))))]
        gap_losses_npixel ==
            IF skip_npixel THEN <<>> ELSE
            [k \in DOMAIN gap_ranges |->
                nn_loss(self.crit_npixel, "mean",
                    Scalar(FDiv(clamped_count(spred, gap_coords[k], self.adc_threshold),
                                n(k))),
                    Scalar(FDiv(clamped_count(starget, gap_coords[k], self.adc_threshold),
                                n(k))))]
        nothing == [raised |-> "none", adc |-> Zero, npixel |-> Zero,
                    active_gap_coords |-> {}, gap_ranges |-> <<>>, gap_coords |-> <<>>,
                    adc_calls |-> 0, npixel_calls |-> 0]
    IN  IF skip_adc /\ skip_npixel THEN nothing
        ELSE IF active_gap_coords = {}
        THEN nothing
        ELSE IF (~skip_adc /\ self.crit_adc = "unset")
                \/ (~skip_npixel /\ self.crit_npixel = "unset")
        THEN [nothing EXCEPT !.raised = "AttributeError",
                             !.active_gap_coords = active_gap_coords,
                             !.gap_ranges = gap_ranges, !.gap_coords = gap_coords]
        ELSE [raised |-> "none",
              adc |-> IF ~skip_adc THEN mean_of(gap_losses_adc) ELSE Zero,
              npixel |-> IF ~skip_npixel THEN mean_of(gap_losses_npixel) ELSE Zero,
              active_gap_coords |-> active_gap_coords,
              gap_ranges |-> gap_ranges,
              gap_coords |-> gap_coords,
              adc_calls |-> Len(gap_losses_adc),
              npixel_calls |-> Len(gap_losses_npixel)]

GapWiseOrder ==
    <<"infill_zero", "infill_nonzero", "infill", "x_gaps_adc", "x_gaps_npixel",
      "z_gaps_adc", "z_gaps_npixel">>

\* what one pass of the loop body leaves behind, from the results of its
\* pixel-wise calls and of its two group calls (x, z), in statement order
sample_entry(pix, axes, names) ==
    LET steps == <<pix["infill_zero"].raised, pix["infill_nonzero"].raised,
                   pix["infill"].raised, axes["x"].raised, axes["z"].raised>>
        \* a statement runs only if no earlier statement of the body raised
        runs(k) == first_raised(SubSeq(steps, 1, k - 1)) = "none"
    IN  [raised |-> first_raised(steps),
         vals |-> [name \in ListSet(names) |->
                     CASE name \in DOMAIN pix -> pix[name].val
                       [] name = names[4] -> axes["x"].adc
                       [] name = names[5] -> axes["x"].npixel
                       [] name = names[6] -> axes["z"].adc
                       [] name = names[7] -> axes["z"].npixel],
         calls |-> [name \in ListSet(names) |->
                     CASE name = names[1] -> pix[name].calls
                       [] name = names[2] -> IF runs(2) THEN pix[name].calls ELSE 0
                       [] name = names[3] -> IF runs(3) THEN pix[name].calls ELSE 0
                       [] name = names[4] -> IF runs(4) THEN axes["x"].adc_calls ELSE 0
                       [] name = names[5] -> IF runs(4) THEN axes["x"].npixel_calls ELSE 0
                       [] name = names[6] -> IF runs(5) THEN axes["z"].adc_calls ELSE 0
                       [] name = names[7] -> IF runs(5) THEN axes["z"].npixel_calls ELSE 0]]

GapWise_sample(self, spred, starget, d, sel, sf, i_batch) ==
    sample_entry(
        [name \in {"infill_zero", "infill_nonzero", "infill"} |->
            IF sf[name] = 0 THEN [raised |-> "none", val |-> Zero, calls |-> 0]
            ELSE GapWise_get_loss_at_coords(
                     self, spred, starget,
                     BatchRows(CASE name = "infill_zero" -> sel.infill_coords_zero
                                 [] name = "infill_nonzero" -> sel.infill_coords_nonzero
                                 [] name = "infill" -> sel.infill_coords,
                               i_batch))],
        [axis \in {"x", "z"} |->
            _get_gap_losses(self, spred, starget,
                            IF axis = "x" THEN d.mask_x[i_batch + 1]
                                          ELSE d.mask_z[i_batch + 1],
                            BatchRows(sel.infill_coords, i_batch),
                            IF axis = "x" THEN 1 ELSE 3,
                            IF axis = "x" THEN sf["x_gaps_adc"] = 0
                                          ELSE sf["z_gaps_adc"] = 0,
                            IF axis = "x" THEN sf["x_gaps_npixel"] = 0
                                          ELSE sf["z_gaps_npixel"] = 0)],
        GapWiseOrder)

GapWise_loop(self, spred, starget, d, sel, sf) ==
    batch_loop(GapWiseOrder, sf,
               [i_batch \in 0..(Len(d.mask_x) - 1) |->
                   GapWise_sample(self, spred, starget, d, sel, sf, i_batch)],
               Len(d.mask_x))

GapWise_calc_loss(self, spred, sin, starget, d) ==
    GapWise_loop(self, spred, starget, d,
                 _get_infill_coords(sin, starget),
                 GapWise_lambdas(self))

-----------------------------------------------------------------------------
(* PlaneWise                                                               *)

PlaneWise_init(conf0, override_opts) ==
    LET c == apply_override_opts(conf0, override_opts)
        lf == c["loss_func"]
        crit_adc == IF lf = "PlaneWise_L1Loss" THEN "L1Loss" ELSE "unset"
        x_npixel == getattr(c, "loss_x_planes_npixel_weight", 0)
        z_npixel == getattr(c, "loss_z_planes_npixel_weight", 0)
    IN  IF "adc_threshold" \notin DOMAIN c
        THEN [raised |-> "AttributeError", message |-> <<"adc_threshold">>,
              self |-> NoInstance]
        ELSE IF c["adc_threshold"] = PyNone /\ (x_npixel # 0 \/ z_npixel # 0)
        THEN [raised |-> "ValueError",
              message |-> <<"Need to have an adc threshold">>,
              self |-> NoInstance]
        ELSE [raised |-> "none", message |-> <<>>,
              self |-> [class |-> "PlaneWise",
                        crit_adc |-> crit_adc,
                        crit_adc_sumreduction |-> crit_adc,
                        crit_npixel |-> crit_adc,
                        adc_threshold |-> c["adc_threshold"],
                        lambda_loss_infill_zero |-> getattr(c, "loss_infill_zero_weight", 0),
                        lambda_loss_infill_nonzero |-> getattr(c, "loss_infill_nonzero_weight", 0),
                        lambda_loss_infill |-> getattr(c, "loss_infill_weight", 0),
                        lambda_loss_x_planes_adc |-> getattr(c, "loss_x_planes_adc_weight", 0),
                        lambda_loss_x_planes_npixel |-> x_npixel,
                        lambda_loss_z_planes_adc |-> getattr(c, "loss_z_planes_adc_weight", 0),
                        lambda_loss_z_planes_npixel |-> z_npixel]]

\* the weights as calc_loss reads them: the attribute behind each
\* `if self.lambda_loss_<name>:` and each losses["<name>"]
PlaneWise_lambdas(self) ==
    [name \in {"infill_zero", "infill_nonzero", "infill", "x_planes_adc", "x_planes_npixel", "z_planes_adc", "z_planes_npixel"} |->
        CASE name = "infill_zero" -> self.lambda_loss_infill_zero
          [] name = "infill_nonzero" -> self.lambda_loss_infill_nonzero
          [] name = "infill" -> self.lambda_loss_infill
          [] name = "x_planes_adc" -> self.lambda_loss_x_planes_adc
          [] name = "x_planes_npixel" -> self.lambda_loss_x_planes_npixel
          [] name = "z_planes_adc" -> self.lambda_loss_z_planes_adc
          [] name = "z_planes_npixel" -> self.lambda_loss_z_planes_npixel]

PlaneWise_get_names_scalefactors(self) ==
    [name \in {"infill_zero", "infill_nonzero", "infill", "x_planes_adc",
               "x_planes_npixel", "z_planes_adc", "z_planes_npixel"} |->
        CASE name = "infill_zero" -> self.lambda_loss_infill_zero
          [] name = "infill_nonzero" -> self.lambda_loss_infill_nonzero
          [] name = "infill" -> self.lambda_loss_infill
          [] name = "x_planes_adc" -> self.lambda_loss_x_planes_adc
          [] name = "x_planes_npixel" -> self.lambda_loss_x_planes_npixel
          [] name = "z_planes_adc" -> self.lambda_loss_z_planes_adc
          [] name = "z_planes_npixel" -> self.lambda_loss_z_planes_npixel]

PlaneWise_get_loss_at_coords(self, spred, starget, coords) ==
    IF self.crit_adc = "unset"
    THEN [raised |-> "AttributeError", val |-> Zero, calls |-> 0]
    ELSE [raised |-> "none", calls |-> 1,
          val |-> IF Cardinality(coords) # 0
                  THEN nn_loss(self.crit_adc, "mean",
                               features_at_coordinates(spred, coords),
                               features_at_coordinates(starget, coords))
                  ELSE nn_loss(self.crit_adc_sumreduction, "sum",
                               features_at_coordinates(spred, coords),
                               features_at_coordinates(starget, coords))]

\* a plane loss that keeps only the markers found among the infill coordinates
Mutant_get_plane_losses(self, spred, starget, gaps, infill_coords, coord_idx, skip_adc, skip_npixel) ==
    LET present == {c[coord_idx + 1] : c \in infill_coords} \cap gaps
    IN  [raised |-> "none", adc |-> Zero, npixel |-> Zero,
         plane_coords |-> [g \in present |-> {c \in infill_coords : c[coord_idx + 1] = g}],
         n_planes |-> IF skip_adc /\ skip_npixel THEN 0 ELSE Cardinality(present)]

_get_plane_losses(self, spred, starget, gaps, infill_coords, coord_idx, skip_adc, skip_npixel) ==
    LET plane_coords == [g \in gaps |-> {c \in infill_coords : c[coord_idx + 1] = g}]
        plane_losses_adc ==
            IF skip_adc THEN <<>> ELSE
            [g \in gaps |->
                nn_loss(self.crit_adc, "mean",
                    Scalar(tensor_sum(features_at_coordinates(spred, plane_coords[g]))),
                    Scalar(tensor_sum(features_at_coordinates(starget, plane_coords[g]))))]
        plane_losses_npixel ==
            IF skip_npixel THEN <<>> ELSE
            [g \in gaps |->
                nn_loss(self.crit_npixel, "mean",
                    Scalar(clamped_count(spred, plane_coords[g], self.adc_threshold)),
                    Scalar(clamped_count(starget, plane_coords[g], self.adc_threshold)))]
        nothing == [raised |-> "none", adc |-> Zero, npixel |-> Zero,
                    plane_coords |-> <<>>, n_planes |-> 0,
                    adc_calls |-> 0, npixel_calls |-> 0]
    IN  IF skip_adc /\ skip_npixel THEN nothing
        ELSE IF gaps = {}
        THEN \* sum([]) / len([]): Python int division 0 / 0
             [nothing EXCEPT !.raised = "ZeroDivisionError"]
        ELSE IF (~skip_adc /\ self.crit_adc = "unset")
                \/ (~skip_npixel /\ self.crit_npixel = "unset")
        THEN [nothing EXCEPT !.raised = "AttributeError"]
        ELSE IF ~skip_npixel /\ self.adc_threshold = PyNone
        THEN [nothing EXCEPT !.raised = "TypeError"]
        ELSE [raised |-> "none",
              adc |-> IF ~skip_adc THEN mean_of(plane_losses_adc) ELSE Zero,
              npixel |-> IF ~skip_npixel THEN mean_of(plane_losses_npixel) ELSE Zero,
              plane_coords |-> plane_coords,
              n_planes |-> Cardinality(gaps),
              adc_calls |-> Cardinality(DOMAIN plane_losses_adc),
              npixel_calls |-> Cardinality(DOMAIN plane_losses_npixel)]

PlaneWiseOrder ==
    <<"infill_zero", "infill_nonzero", "infill", "x_planes_adc", "x_planes_npixel",
      "z_planes_adc", "z_planes_npixel">>

PlaneWise_sample(self, spred, starget, d, sel, sf, i_batch) ==
    sample_entry(
        [name \in {"infill_zero", "infill_nonzero", "infill"} |->
            IF sf[name] = 0 THEN [raised |-> "none", val |-> Zero, calls |-> 0]
            ELSE PlaneWise_get_loss_at_coords(
                     self, spred, starget,
                     BatchRows(CASE name = "infill_zero" -> sel.infill_coords_zero
                                 [] name = "infill_nonzero" -> sel.infill_coords_nonzero
                                 [] name = "infill" -> sel.infill_coords,
                               i_batch))],
        [axis \in {"x", "z"} |->
            _get_plane_losses(self, spred, starget,
                              IF axis = "x" THEN d.mask_x[i_batch + 1]
                                            ELSE d.mask_z[i_batch + 1],
                              BatchRows(sel.infill_coords, i_batch),
                              IF axis = "x" THEN 1 ELSE 3,
                              IF axis = "x" THEN sf["x_planes_adc"] = 0
                                            ELSE sf["z_planes_adc"] = 0,
                              IF axis = "x" THEN sf["x_planes_npixel"] = 0
                                            ELSE sf["z_planes_npixel"] = 0)],
        PlaneWiseOrder)

PlaneWise_loop(self, spred, starget, d, sel, sf) ==
    batch_loop(PlaneWiseOrder, sf,
               [i_batch \in 0..(Len(d.mask_x) - 1) |->
                   PlaneWise_sample(self, spred, starget, d, sel, sf, i_batch)],
               Len(d.mask_x))

PlaneWise_calc_loss(self, spred, sin, starget, d) ==
    PlaneWise_loop(self, spred, starget, d,
                   _get_infill_coords(sin, starget),
                   PlaneWise_lambdas(self))

-----------------------------------------------------------------------------
(* Chamfer and the factory                                                 *)

\* ChamferDistance() and torch.device(conf.device) are taken to succeed on a
\* configuration that has a device; the configuration parser gives every
\* configuration one.
Chamfer_init(conf0, override_opts) ==
    LET c == apply_override_opts(conf0, override_opts)
    IN  IF "device" \notin DOMAIN c
        THEN [raised |-> "AttributeError", message |-> <<"device">>, self |-> NoInstance]
        ELSE
        [raised |-> "none", message |-> <<>>,
         self |-> [class |-> "Chamfer",
                   lambda_loss_infill_chamfer |->
                       getattr(c, "loss_infill_chamfer_weight", 0)]]

\* a factory without the raise that follows the Chamfer construction
MutantChamfer_init_loss_func(c) ==
    LET lf == c["loss_func"]
    IN  IF lf \in {"PixelWise_L1Loss", "PixelWise_MSELoss", "PixelWise_BCEWithLogitsLoss"}
        THEN PixelWise_init(c, <<>>)
        ELSE IF lf \in {"GapWise_L1Loss", "GapWise_MSELoss", "GapWise_L1Loss_MSELossPixelWise"}
        THEN GapWise_init(c, <<>>)
        ELSE IF lf = "PlaneWise_L1Loss"
        THEN PlaneWise_init(c, <<>>)
        ELSE IF lf = "Chamfer"
        THEN Chamfer_init(c, <<>>)
        ELSE [raised |-> "ValueError", message |-> <<"loss_func={} not valid", lf>>,
              self |-> NoInstance]

\* a factory whose GapWise branch misses one of the three names
MutantDispatch_init_loss_func(c) ==
    LET lf == c["loss_func"]
    IN  IF lf \in {"PixelWise_L1Loss", "PixelWise_MSELoss", "PixelWise_BCEWithLogitsLoss"}
        THEN PixelWise_init(c, <<>>)
        ELSE IF lf \in {"GapWise_L1Loss", "GapWise_MSELoss"}
        THEN GapWise_init(c, <<>>)
        ELSE IF lf = "PlaneWise_L1Loss"
        THEN PlaneWise_init(c, <<>>)
        ELSE IF lf = "Chamfer"
        THEN [raised |-> "NotImplementedError",
              message |-> <<"Don't think Chamfer loss is possible">>, self |-> NoInstance]
        ELSE [raised |-> "ValueError", message |-> <<"loss_func={} not valid", lf>>,
              self |-> NoInstance]

\* returns [raised, message, self]: self is the instance handed to the caller,
\* message the text of the exception followed by the values formatted into it
init_loss_func(c) ==
    LET lf == c["loss_func"]
    IN  IF lf \in {"PixelWise_L1Loss", "PixelWise_MSELoss", "PixelWise_BCEWithLogitsLoss"}
        THEN PixelWise_init(c, <<>>)
        ELSE IF lf \in {"GapWise_L1Loss", "GapWise_MSELoss", "GapWise_L1Loss_MSELossPixelWise"}
        THEN GapWise_init(c, <<>>)
        ELSE IF lf = "PlaneWise_L1Loss"
        THEN PlaneWise_init(c, <<>>)
        ELSE IF lf = "Chamfer"
        THEN LET made == Chamfer_init(c, <<>>)
             IN  IF made.raised # "none" THEN made
                 ELSE [raised |-> "NotImplementedError",
                       message |-> <<"Don't think Chamfer loss is possible">>,
                       self |-> NoInstance]
        ELSE [raised |-> "ValueError", message |-> <<"loss_func={} not valid", lf>>,
              self |-> NoInstance]

-----------------------------------------------------------------------------
(* Operations.  Every action is one call made by the training code; pc      *)
(* names the call that produced ret.                                        *)

\* nums of SpecRanges: markers 0..MaxNum
MaxNum == 10

RECURSIVE reversed(_)
reversed(l) == IF l = <<>> THEN <<>> ELSE reversed(Tail(l)) \o <<Head(l)>>

\* a marker list as built by a caller: ascending, or in any order with repeats
MarkerLists(S) == {sorted(S), reversed(sorted(S)) \o sorted(S)}

InitRanges ==
    /\ conf = NoConf /\ loss = NoInstance /\ raised = "none"
    /\ s_pred = NoTensor /\ s_in = NoTensor /\ s_target = NoTensor
    /\ data = NoData
    /\ \E S \in SUBSET (0..MaxNum) : \E l \in MarkerLists(S) :
          args = [kind |-> "_get_edge_ranges", nums |-> l]
    /\ ret = NoRet
    /\ pc = "init"

Call_get_edge_ranges ==
    /\ pc = "init"
    /\ args.kind = "_get_edge_ranges"
    /\ ret' = [kind |-> "_get_edge_ranges", ranges |-> _get_edge_ranges(args.nums)]
    /\ pc' = "_get_edge_ranges"
    /\ UNCHANGED <<conf, loss, raised, s_pred, s_in, s_target, data, args>>

NextRanges == Call_get_edge_ranges

SpecRanges == InitRanges /\ [][NextRanges]_vars

-----------------------------------------------------------------------------
(* _get_edge_ranges                                                         *)

\* a maximal run of consecutive integers of S, as its (start, end) pair
IsMaximalRun(S, a, b) ==
    /\ a <= b
    /\ \A n \in a..b : n \in S
    /\ (a - 1) \notin S
    /\ (b + 1) \notin S

\* C2: for every non-empty marker list, _get_edge_ranges returns, ascending,
\* exactly the (start, end) pairs of the maximal runs of consecutive integers
\* of its set: one contiguous run gives (min, max), one marker m gives (m, m)
\* and {2,3,4,7,8,10} gives [(2,4),(7,8),(10,10)].
C2_MaximalRuns ==
    (pc = "_get_edge_ranges" /\ args.nums # <<>>) =>
        LET S == ListSet(args.nums)
            r == ret.ranges
        IN  /\ \A k \in DOMAIN r : IsMaximalRun(S, r[k][1], r[k][2])
            /\ \A a \in S : \A b \in S :
                  IsMaximalRun(S, a, b) => \E k \in DOMAIN r : r[k] = <<a, b>>
            /\ \A k \in DOMAIN r : k > 1 => r[k - 1][2] < r[k][1]
            /\ (\A n \in S : \A m \in S : \A j \in n..m : j \in S)
                  => r = << <<sorted(S)[1], sorted(S)[Cardinality(S)]>> >>
            /\ S = {2, 3, 4, 7, 8, 10} => r = << <<2, 4>>, <<7, 8>>, <<10, 10>> >>

C2_Witness ==
    /\ pc = "_get_edge_ranges"
    /\ ListSet(args.nums) = {2, 3, 4, 7, 8, 10}
    /\ Len(args.nums) = 12
    /\ ret.ranges = << <<2, 4>>, <<7, 8>>, <<10, 10>> >>

-----------------------------------------------------------------------------
(* Configurations                                                           *)

\* weights are 1..MaxEnabled, on at most MaxEnabled terms of a configuration
MaxEnabled == 2
\* configured thresholds are -MaxThreshold..MaxThreshold, None, or not given
MaxThreshold == 1

PixelWiseNames == {"PixelWise_L1Loss", "PixelWise_MSELoss", "PixelWise_BCEWithLogitsLoss"}
GapWiseNames == {"GapWise_L1Loss", "GapWise_MSELoss", "GapWise_L1Loss_MSELossPixelWise"}
PlaneWiseNames == {"PlaneWise_L1Loss"}

\* the weights get_config insists on (mandatory_fields)
MandatoryWeights ==
    {"loss_infill_zero_weight", "loss_infill_nonzero_weight",
     "loss_active_zero_weight", "loss_active_nonzero_weight"}

\* position of f in the list fields
RankIn(fields, f) == CHOOSE k \in DOMAIN fields : fields[k] = f

\* the weight part of a configuration: the k-th enabled term of the list has
\* weight k, a mandatory weight that is not enabled is 0, any other is left out
WeightSettings(fields) ==
    LET names == ListSet(fields)
        rank(on, f) == Cardinality({g \in on : RankIn(fields, g) <= RankIn(fields, f)})
    IN  {[f \in on \cup MandatoryWeights |-> IF f \in on THEN rank(on, f) ELSE 0] :
            on \in {e \in SUBSET names : Cardinality(e) <= MaxEnabled}}

\* adc_threshold as configured: not given ({}), None, or a number
ThresholdSettings ==
    {<<>>, [adc_threshold |-> PyNone]}
        \cup {[adc_threshold |-> PyNum(t)] : t \in (0 - MaxThreshold)..MaxThreshold}

\* what get_config returns, cut down to the fields the losses read
config(loss_func, threshold, weights) ==
    [f \in {"loss_func", "device"} \cup DOMAIN threshold \cup DOMAIN weights |->
        IF f = "loss_func" THEN loss_func
        ELSE IF f = "device" THEN "cuda:0"
        ELSE IF f \in DOMAIN threshold THEN threshold[f]
        ELSE weights[f]]

npixel_weight(c, fields) == \E f \in fields : getattr(c, f, 0) # 0

-----------------------------------------------------------------------------
(* Construction: the factory and the four constructors called directly.     *)

FactoryWeightFields ==
    <<"loss_infill_weight",
      "loss_x_gaps_adc_weight", "loss_x_gaps_npixel_weight", "loss_z_gaps_npixel_weight",
      "loss_x_planes_adc_weight", "loss_x_planes_npixel_weight",
      "loss_z_planes_npixel_weight">>

FactoryNames == PixelWiseNames \cup GapWiseNames \cup PlaneWiseNames
                    \cup {"Chamfer", "GapWise_BCELoss"}

\* one infilled voxel next to a marker on each axis
InitTokenBatch ==
    /\ s_in = (<<0, 1, 0, 1>> :> 1)
    /\ s_target = (<<0, 1, 0, 1>> :> 1)
    /\ \E v \in 0..1 : s_pred = (<<0, 1, 0, 1>> :> v)
    /\ data = [mask_x |-> << {1} >>, mask_z |-> << {1} >>]

InitFactory ==
    /\ \E lf \in FactoryNames : \E t \in ThresholdSettings :
       \E w \in WeightSettings(FactoryWeightFields) : conf = config(lf, t, w)
    /\ loss = NoInstance /\ raised = "none"
    /\ InitTokenBatch
    /\ args = [kind |-> "construct", override_opts |-> <<>>]
    /\ ret = NoRet
    /\ pc = "init"

Constructed(made, name) ==
    /\ loss' = made.self
    /\ raised' = made.raised
    /\ ret' = [kind |-> name, message |-> made.message]
    /\ pc' = name
    /\ UNCHANGED <<conf, s_pred, s_in, s_target, data, args>>

Call_init_loss_func ==
    /\ pc = "init" /\ args.kind = "construct"
    /\ Constructed(init_loss_func(conf), "init_loss_func")

New_PixelWise ==
    /\ pc = "init" /\ args.kind = "construct"
    /\ Constructed(PixelWise_init(conf, args.override_opts), "PixelWise")

New_GapWise ==
    /\ pc = "init" /\ args.kind = "construct"
    /\ Constructed(GapWise_init(conf, args.override_opts), "GapWise")

New_PlaneWise ==
    /\ pc = "init" /\ args.kind = "construct"
    /\ Constructed(PlaneWise_init(conf, args.override_opts), "PlaneWise")

New_Chamfer ==
    /\ pc = "init" /\ args.kind = "construct"
    /\ Constructed(Chamfer_init(conf, args.override_opts), "Chamfer")

\* loss.calc_loss(s_pred, s_in, s_target, data) on a constructed instance
Call_calc_loss ==
    /\ pc \in {"ready", "init_loss_func", "PixelWise", "GapWise", "PlaneWise"}
    /\ loss.class \in {"PixelWise", "GapWise", "PlaneWise"}
    /\ LET out == CASE loss.class = "PixelWise" ->
                          PixelWise_calc_loss(loss, s_pred, s_in, s_target, data)
                    [] loss.class = "GapWise" ->
                          GapWise_calc_loss(loss, s_pred, s_in, s_target, data)
                    [] loss.class = "PlaneWise" ->
                          PlaneWise_calc_loss(loss, s_pred, s_in, s_target, data)
       IN  /\ raised' = out.raised
           /\ ret' = [kind |-> "calc_loss", loss_tot |-> out.loss_tot,
                      losses |-> out.losses, calls |-> out.calls, caller |-> pc]
    /\ pc' = "calc_loss"
    /\ UNCHANGED <<conf, loss, s_pred, s_in, s_target, data, args>>

NextFactory ==
    \/ Call_init_loss_func
    \/ New_PixelWise
    \/ New_GapWise
    \/ New_PlaneWise
    \/ New_Chamfer
    \/ Call_calc_loss

SpecFactory == InitFactory /\ [][NextFactory]_vars

-----------------------------------------------------------------------------
(* Construction: properties                                                 *)

\* the constructor that ran: called directly, or picked by the factory
BuiltGapWise ==
    pc = "GapWise" \/ (pc = "init_loss_func" /\ conf["loss_func"] \in GapWiseNames)
BuiltPlaneWise ==
    pc = "PlaneWise" \/ (pc = "init_loss_func" /\ conf["loss_func"] \in PlaneWiseNames)

GapNpixelFields == {"loss_x_gaps_npixel_weight", "loss_z_gaps_npixel_weight"}
PlaneNpixelFields == {"loss_x_planes_npixel_weight", "loss_z_planes_npixel_weight"}

\* adc_threshold is given and is None, 0 or negative
ThresholdNotPositive(c) ==
    /\ "adc_threshold" \in DOMAIN c
    /\ \/ c["adc_threshold"] = PyNone
       \/ (c["adc_threshold"] # PyNone /\ c["adc_threshold"][1] <= 0)

\* C7 as stated: constructing a GapWise or a PlaneWise with an npixel weight
\* greater than 0 and adc_threshold None, 0 or negative raises the
\* configuration error, so that no instance exists to call calc_loss on.
C7_RefusesBadThreshold ==
    /\ (BuiltGapWise /\ npixel_weight(conf, GapNpixelFields) /\ ThresholdNotPositive(conf))
          => (raised = "ValueError" /\ loss = NoInstance)
    /\ (BuiltPlaneWise /\ npixel_weight(conf, PlaneNpixelFields) /\ ThresholdNotPositive(conf))
          => (raised = "ValueError" /\ loss = NoInstance)

\* when GapWise.__init__ / PlaneWise.__init__ do not hand out an instance
GapWiseRefuses(c) ==
    \/ "adc_threshold" \notin DOMAIN c
    \/ c["adc_threshold"] = PyNone
    \/ (c["adc_threshold"] = PyNum(0) /\ npixel_weight(c, GapNpixelFields))
PlaneWiseRefuses(c) ==
    \/ "adc_threshold" \notin DOMAIN c
    \/ (c["adc_threshold"] = PyNone /\ npixel_weight(c, PlaneNpixelFields))

RefusedWith ==
    /\ loss = NoInstance
    /\ raised = (IF "adc_threshold" \in DOMAIN conf THEN "ValueError" ELSE "AttributeError")

UnknownNameRefused ==
    /\ raised = "ValueError"
    /\ loss = NoInstance
    /\ \E i \in DOMAIN ret.message : ret.message[i] = conf["loss_func"]

\* C8 (amended): init_loss_func builds a PixelWise for the three PixelWise_*
\* names, a GapWise for the three GapWise_* names and a PlaneWise for
\* PlaneWise_L1Loss and returns it unless that constructor refuses the
\* configuration, in which case its error reaches the caller and nothing is
\* returned; for every other name but "Chamfer" it returns nothing and raises
\* a ValueError whose message contains the name.
C8_Dispatch ==
    pc = "init_loss_func" =>
        LET lf == conf["loss_func"]
        IN  /\ lf \in PixelWiseNames => (raised = "none" /\ loss.class = "PixelWise")
            /\ lf \in GapWiseNames =>
                  IF GapWiseRefuses(conf) THEN RefusedWith
                  ELSE raised = "none" /\ loss.class = "GapWise"
            /\ lf \in PlaneWiseNames =>
                  IF PlaneWiseRefuses(conf) THEN RefusedWith
                  ELSE raised = "none" /\ loss.class = "PlaneWise"
            /\ lf \notin PixelWiseNames \cup GapWiseNames \cup PlaneWiseNames \cup {"Chamfer"}
                  => UnknownNameRefused

C8_Witness ==
    /\ pc = "init_loss_func"
    /\ conf["loss_func"] = "GapWise_L1Loss_MSELossPixelWise"
    /\ raised = "none"
    /\ loss.class = "GapWise"
    /\ loss.crit_adc = "L1Loss" /\ loss.crit_adc_pixelwise = "MSELoss"

\* C8 as stated: a GapWise_* name always gives a GapWise instance and
\* PlaneWise_L1Loss always a PlaneWise instance.
C8_AlwaysReturns ==
    pc = "init_loss_func" =>
        LET lf == conf["loss_func"]
        IN  /\ lf \in PixelWiseNames => (raised = "none" /\ loss.class = "PixelWise")
            /\ lf \in GapWiseNames => (raised = "none" /\ loss.class = "GapWise")
            /\ lf \in PlaneWiseNames => (raised = "none" /\ loss.class = "PlaneWise")
            /\ lf \notin PixelWiseNames \cup GapWiseNames \cup PlaneWiseNames \cup {"Chamfer"}
                  => UnknownNameRefused

\* C9: selecting "Chamfer" through init_loss_func always ends in
\* NotImplementedError and the caller never gets an instance.
C9_ChamferNotImplemented ==
    (pc = "init_loss_func" /\ conf["loss_func"] = "Chamfer") =>
        (raised = "NotImplementedError" /\ loss = NoInstance)

C9_Witness ==
    /\ pc = "init_loss_func"
    /\ conf["loss_func"] = "Chamfer"
    /\ "loss_infill_weight" \in DOMAIN conf
    /\ raised = "NotImplementedError"

-----------------------------------------------------------------------------
(* Batches                                                                  *)

\* samples of a batch
MaxBatch == 2
\* voxel positions 1..MaxCoord along x (y = 0, z = 1)
MaxCoord == 2
\* occupied voxels of a batch
MaxVoxels == 2
\* feature values 0..MaxFeat
MaxFeat == 1

\* coordinates are (batch index, x, y, z)
Grid(B) == {<<b, x, 0, 1>> : b \in 0..(B - 1), x \in 1..MaxCoord}

SmallSubsets(S, n) == {T \in SUBSET S : Cardinality(T) <= n}

\* s_in: the last feature column is the infill flag (1 = to be infilled)
InputTensors(B) == UNION {[D -> {0, 1}] : D \in SmallSubsets(Grid(B), MaxVoxels)}
\* s_pred: a prediction at every input coordinate
FeatureTensors(D) == [D -> 0..MaxFeat]
\* s_target: the truth, which may lack some of the input coordinates
SparserTensors(D) == UNION {[E -> 0..MaxFeat] : E \in SUBSET D}

InitTensors(B) ==
    /\ s_in \in InputTensors(B)
    /\ s_pred \in FeatureTensors(DOMAIN s_in)
    /\ s_target \in SparserTensors(DOMAIN s_in)

\* the voxels of every sample sit at x = 1, 2, ... without a hole
Packed(D) == \A c \in D : \A x \in 1..(c[2] - 1) : <<c[1], x, c[3], c[4]>> \in D

\* the batches of at most n voxels whose samples are packed
InitPackedTensors(B, n) ==
    /\ s_in \in UNION {[D -> {0, 1}] : D \in {E \in SmallSubsets(Grid(B), n) : Packed(E)}}
    /\ s_pred \in FeatureTensors(DOMAIN s_in)
    /\ s_target \in SparserTensors(DOMAIN s_in)

NoMasks(B) == [mask_x |-> [i \in 1..B |-> {}], mask_z |-> [i \in 1..B |-> {}]]

\* a configuration with every weight 0
NoWeights == [f \in MandatoryWeights |-> 0]

-----------------------------------------------------------------------------
(* The helpers of an instance, called one at a time.                        *)

InitEval ==
    /\ \E lf \in PixelWiseNames \cup GapWiseNames \cup PlaneWiseNames :
          conf = config(lf, [adc_threshold |-> PyNum(1)], NoWeights)
    /\ loss = init_loss_func(conf).self
    /\ raised = "none"
    /\ \E B \in 1..MaxBatch : InitTensors(B) /\ data = NoMasks(B)
    /\ args = NoArgs
    /\ ret = NoRet
    /\ pc = "ready"

Call_get_infill_active_coords ==
    /\ pc = "ready" /\ loss.class = "PixelWise"
    /\ args' = [kind |-> "_get_infill_active_coords"]
    /\ ret' = _get_infill_active_coords(s_in, s_target)
    /\ pc' = "_get_infill_active_coords"
    /\ UNCHANGED <<conf, loss, raised, s_pred, s_in, s_target, data>>

Call_get_infill_coords ==
    /\ pc = "ready" /\ loss.class \in {"GapWise", "PlaneWise"}
    /\ args' = [kind |-> "_get_infill_coords"]
    /\ ret' = _get_infill_coords(s_in, s_target)
    /\ pc' = "_get_infill_coords"
    /\ UNCHANGED <<conf, loss, raised, s_pred, s_in, s_target, data>>

\* self._get_loss_at_coords(s_pred, s_target, coords)
Call_get_loss_at_coords ==
    /\ pc = "ready" /\ loss.class \in {"PixelWise", "GapWise", "PlaneWise"}
    /\ \E coords \in SUBSET DOMAIN s_in :
          LET out == CASE loss.class = "PixelWise" ->
                             [raised |-> "none",
                              val |-> PixelWise_get_loss_at_coords(
                                          loss, s_pred, s_target, coords)]
                       [] loss.class = "GapWise" ->
                             GapWise_get_loss_at_coords(loss, s_pred, s_target, coords)
                       [] loss.class = "PlaneWise" ->
                             PlaneWise_get_loss_at_coords(loss, s_pred, s_target, coords)
          IN  /\ args' = [kind |-> "_get_loss_at_coords", coords |-> coords]
              /\ raised' = out.raised
              /\ ret' = [kind |-> "_get_loss_at_coords", val |-> out.val]
    /\ pc' = "_get_loss_at_coords"
    /\ UNCHANGED <<conf, loss, s_pred, s_in, s_target, data>>

\* self._get_summed_loss_at_coords(s_pred, s_target, coords)
Call_get_summed_loss_at_coords ==
    /\ pc = "ready" /\ loss.class = "PixelWise"
    /\ \E coords \in SUBSET DOMAIN s_in :
          /\ args' = [kind |-> "_get_summed_loss_at_coords", coords |-> coords]
          /\ ret' = [kind |-> "_get_summed_loss_at_coords",
                     val |-> PixelWise_get_summed_loss_at_coords(
                                 loss, s_pred, s_target, coords)]
    /\ pc' = "_get_summed_loss_at_coords"
    /\ UNCHANGED <<conf, loss, raised, s_pred, s_in, s_target, data>>

NextEval ==
    \/ Call_get_infill_active_coords
    \/ Call_get_infill_coords
    \/ Call_get_loss_at_coords
    \/ Call_get_summed_loss_at_coords

SpecEval == InitEval /\ [][NextEval]_vars

\* C1: the selector's four zero/nonzero sets hold every input coordinate
\* exactly once, infill and active are the unions of their two halves, are
\* disjoint and together are all the input coordinates.
C1_SelectorPartition ==
    pc = "_get_infill_active_coords" =>
        LET parts == <<ret.infill_coords_zero, ret.infill_coords_nonzero,
                       ret.active_coords_zero, ret.active_coords_nonzero>>
        IN  /\ \A c \in DOMAIN s_in : Cardinality({k \in 1..4 : c \in parts[k]}) = 1
            /\ \A k \in 1..4 : parts[k] \subseteq DOMAIN s_in
            /\ ret.infill_coords = ret.infill_coords_zero \cup ret.infill_coords_nonzero
            /\ ret.active_coords = ret.active_coords_zero \cup ret.active_coords_nonzero
            /\ ret.infill_coords \cap ret.active_coords = {}
            /\ ret.infill_coords \cup ret.active_coords = DOMAIN s_in

C1_Witness ==
    /\ pc = "_get_infill_active_coords"
    /\ ret.infill_coords_zero # {}
    /\ ret.active_coords_nonzero # {}
    /\ Cardinality(DOMAIN s_in) = 2

EmptySubsetCall ==
    /\ pc \in {"_get_loss_at_coords", "_get_summed_loss_at_coords"}
    /\ args.coords = {}

\* C5 as stated: called with an empty coordinate subset, _get_loss_at_coords
\* and _get_summed_loss_at_coords do not raise and return the scalar 0.
C5_EmptySubsetIsZero ==
    EmptySubsetCall => (raised = "none" /\ ret.val = Zero)

-----------------------------------------------------------------------------
(* The group losses of one sample, called one at a time.                    *)

\* gap markers of a sample are drawn from 1..MaxMarker
MaxMarker == 5
\* the voxels of the sample sit at x = 1..MaxAxis
MaxAxis == 3

\* the marker sets tried: every subset of 1..MaxMarker, and three markers
\* far from any voxel
MarkerSets == SUBSET (1..MaxMarker) \cup {{5, 9, 12}}

InitGroups ==
    /\ \E lf \in GapWiseNames \cup PlaneWiseNames :
          conf = config(lf, [adc_threshold |-> PyNum(1)], NoWeights)
    /\ loss = init_loss_func(conf).self
    /\ raised = "none"
    /\ s_in \in UNION {[D -> {0, 1}] :
                          D \in SmallSubsets({<<0, x, 0, 1>> : x \in 1..MaxAxis}, MaxVoxels)}
    /\ s_pred \in FeatureTensors(DOMAIN s_in)
    /\ s_target \in FeatureTensors(DOMAIN s_in)
    /\ data = NoMasks(1)
    /\ args = NoArgs
    /\ ret = NoRet
    /\ pc = "ready"

\* the arguments calc_loss passes for sample 0: its infill rows, one axis
\* (coord_idx 1 = x, 3 = z) with its markers, and the two skip flags
GroupArgs(name, gaps, coord_idx, skip_adc, skip_npixel) ==
    [kind |-> name, gaps |-> gaps,
     infill_coords |-> BatchRows(_get_infill_coords(s_in, s_target).infill_coords, 0),
     coord_idx |-> coord_idx, skip_adc |-> skip_adc, skip_npixel |-> skip_npixel]

Call_get_gap_losses ==
    /\ pc = "ready" /\ loss.class = "GapWise"
    /\ \E gaps \in MarkerSets : \E coord_idx \in {1, 3} :
       \E skip_adc \in BOOLEAN : \E skip_npixel \in BOOLEAN :
          LET a == GroupArgs("_get_gap_losses", gaps, coord_idx, skip_adc, skip_npixel)
              out == _get_gap_losses(loss, s_pred, s_target, a.gaps, a.infill_coords,
                                     a.coord_idx, a.skip_adc, a.skip_npixel)
          IN  /\ args' = a
              /\ raised' = out.raised
              /\ ret' = out
    /\ pc' = "_get_gap_losses"
    /\ UNCHANGED <<conf, loss, s_pred, s_in, s_target, data>>

Call_get_plane_losses ==
    /\ pc = "ready" /\ loss.class = "PlaneWise"
    /\ \E gaps \in MarkerSets : \E coord_idx \in {1, 3} :
       \E skip_adc \in BOOLEAN : \E skip_npixel \in BOOLEAN :
          LET a == GroupArgs("_get_plane_losses", gaps, coord_idx, skip_adc, skip_npixel)
              out == _get_plane_losses(loss, s_pred, s_target, a.gaps, a.infill_coords,
                                       a.coord_idx, a.skip_adc, a.skip_npixel)
          IN  /\ args' = a
              /\ raised' = out.raised
              /\ ret' = out
    /\ pc' = "_get_plane_losses"
    /\ UNCHANGED <<conf, loss, s_pred, s_in, s_target, data>>

NextGroups == Call_get_gap_losses \/ Call_get_plane_losses

SpecGroups == InitGroups /\ [][NextGroups]_vars

\* the values the infill coordinates of the call take along its axis
AxisValues == {c[args.coord_idx + 1] : c \in args.infill_coords}

\* the markers that lie in one of the ranges formed
Grouped == UNION {ret.gap_ranges[k][1]..ret.gap_ranges[k][2] : k \in DOMAIN ret.gap_ranges}

\* C3: in _get_gap_losses the markers grouped into ranges are exactly the
\* markers whose axis value occurs among the sample's infill coordinates;
\* markers {1,2,5} with infill axis values {1,2} give the single range (1,2).
C3_OnlyPresentMarkers ==
    (pc = "_get_gap_losses" /\ ~(args.skip_adc /\ args.skip_npixel)) =>
        /\ Grouped = args.gaps \cap AxisValues
        /\ \A k \in DOMAIN ret.gap_ranges :
              IsMaximalRun(args.gaps \cap AxisValues,
                           ret.gap_ranges[k][1], ret.gap_ranges[k][2])
        /\ (args.gaps = {1, 2, 5} /\ AxisValues = {1, 2})
              => ret.gap_ranges = << <<1, 2>> >>

C3_Witness ==
    /\ pc = "_get_gap_losses"
    /\ ~args.skip_adc
    /\ args.gaps = {1, 2, 5}
    /\ AxisValues = {1, 2}
    /\ ret.gap_ranges = << <<1, 2>> >>

\* C4: in _get_plane_losses the number of groups evaluated equals the number
\* of markers of the sample, whether or not an infill coordinate has that axis
\* value; markers {5,9,12} give 3 groups with no infill coordinate at 5, 9, 12.
C4_OneGroupPerMarker ==
    (pc = "_get_plane_losses" /\ ~(args.skip_adc /\ args.skip_npixel)) =>
        /\ ret.n_planes = Cardinality(args.gaps)
        /\ raised = "none" => DOMAIN ret.plane_coords = args.gaps
        /\ (args.gaps = {5, 9, 12} /\ AxisValues \cap args.gaps = {})
              => (ret.n_planes = 3 /\ raised = "none")

C4_Witness ==
    /\ pc = "_get_plane_losses"
    /\ ~args.skip_adc
    /\ args.gaps = {5, 9, 12}
    /\ AxisValues = {1, 2}
    /\ ret.n_planes = 3
    /\ ret.adc = Zero

-----------------------------------------------------------------------------
(* calc_loss of a PixelWise instance on every small batch.                  *)

PixelWiseWeightFields ==
    <<"loss_infill_zero_weight", "loss_infill_nonzero_weight",
      "loss_active_zero_weight", "loss_active_nonzero_weight",
      "loss_infill_weight", "loss_active_weight", "loss_infill_sum_weight">>

GapWiseWeightFields ==
    <<"loss_infill_zero_weight", "loss_infill_nonzero_weight", "loss_infill_weight",
      "loss_x_gaps_adc_weight", "loss_x_gaps_npixel_weight",
      "loss_z_gaps_adc_weight", "loss_z_gaps_npixel_weight">>

PlaneWiseWeightFields ==
    <<"loss_infill_zero_weight", "loss_infill_nonzero_weight", "loss_infill_weight",
      "loss_x_planes_adc_weight", "loss_x_planes_npixel_weight",
      "loss_z_planes_adc_weight", "loss_z_planes_npixel_weight">>

PixelWiseConfs ==
    {config(lf, <<>>, w) : lf \in PixelWiseNames, w \in WeightSettings(PixelWiseWeightFields)}

GapWiseConfs ==
    {config(lf, [adc_threshold |-> PyNum(1)], w) :
        lf \in GapWiseNames, w \in WeightSettings(GapWiseWeightFields)}

PlaneWiseConfs ==
    {config(lf, [adc_threshold |-> PyNum(1)], w) :
        lf \in PlaneWiseNames, w \in WeightSettings(PlaneWiseWeightFields)}

InitPixel ==
    /\ conf \in PixelWiseConfs
    /\ loss = init_loss_func(conf).self
    /\ raised = "none"
    /\ \E B \in 1..MaxBatch : InitPackedTensors(B, MaxVoxels) /\ data = NoMasks(B)
    /\ args = NoArgs
    /\ ret = NoRet
    /\ pc = "ready"

NextPixel == Call_calc_loss

SpecPixel == InitPixel /\ [][NextPixel]_vars

\* the coordinate subset of a term for sample i, in the words of the
\* specification: infill = flagged in s_in, active = the rest, zero/nonzero by
\* the target feature at the coordinate
TargetIsZero(c) == (c \notin DOMAIN s_target) \/ s_target[c] = 0
TermSubset(name, i) ==
    {c \in DOMAIN s_in :
        /\ c[1] = i
        /\ name \in {"infill_zero", "infill_nonzero", "infill", "infill_sum"} => s_in[c] = 1
        /\ name \in {"active_zero", "active_nonzero", "active"} => s_in[c] # 1
        /\ name \in {"infill_zero", "active_zero"} => TargetIsZero(c)
        /\ name \in {"infill_nonzero", "active_nonzero"} => ~TargetIsZero(c)}

\* the criterion of a term on a subset
TermValue(name, coords) ==
    IF name = "infill_sum"
    THEN PixelWise_get_summed_loss_at_coords(loss, s_pred, s_target, coords)
    ELSE PixelWise_get_loss_at_coords(loss, s_pred, s_target, coords)

BatchSize == Len(data.mask_x)

\* C10: every value of the breakdown of PixelWise.calc_loss is the sum over the
\* samples of the criterion on the sample's subset of the term, divided by the
\* batch size; loss_tot is the sum over the keys of scale factor times value;
\* with weights infill_zero = 1, infill_nonzero = 2 and no other the keys are
\* these two and loss_tot = 1 * infill_zero + 2 * infill_nonzero.
C10_BatchAverage ==
    (pc = "calc_loss" /\ loss.class = "PixelWise" /\ raised = "none") =>
        LET sf == PixelWise_get_names_scalefactors(loss)
            keys == DOMAIN ret.losses
        IN  /\ \A name \in keys :
                  ret.losses[name] =
                      FDiv(tensor_sum([i \in 0..(BatchSize - 1) |->
                                          TermValue(name, TermSubset(name, i))]),
                           Q(BatchSize))
            /\ ret.loss_tot =
                  tensor_sum([name \in keys |-> FMul(Q(sf[name]), ret.losses[name])])
            /\ ({name \in DOMAIN sf : sf[name] # 0} = {"infill_zero", "infill_nonzero"}
                    /\ sf["infill_zero"] = 1 /\ sf["infill_nonzero"] = 2)
                  => /\ keys = {"infill_zero", "infill_nonzero"}
                     /\ ret.loss_tot = FAdd(ret.losses["infill_zero"],
                                            FMul(Q(2), ret.losses["infill_nonzero"]))

C10_Witness ==
    /\ pc = "calc_loss" /\ loss.class = "PixelWise" /\ raised = "none"
    /\ BatchSize = 2
    /\ loss.lambda_loss_infill_zero = 1 /\ loss.lambda_loss_infill_nonzero = 2
    /\ DOMAIN ret.losses = {"infill_zero", "infill_nonzero"}
    /\ ret.losses["infill_zero"] = <<1, 2>>
    /\ ret.losses["infill_nonzero"] = <<1, 2>>
    /\ ret.loss_tot = <<3, 2>>

-----------------------------------------------------------------------------
(* calc_loss and get_names_scalefactors of every kind of instance.          *)

\* the batches of Spec: at most one voxel, and one marker set for both axes of
\* every sample (a marker at the voxel, next to it, both or none)
InitBatch(B) ==
    /\ InitPackedTensors(B, 1)
    /\ IF conf["loss_func"] \in PixelWiseNames
       THEN data = NoMasks(B)
       ELSE \E M \in SUBSET (1..MaxCoord) :
               data = [mask_x |-> [i \in 1..B |-> M], mask_z |-> [i \in 1..B |-> M]]

Init ==
    /\ conf \in PixelWiseConfs \cup GapWiseConfs \cup PlaneWiseConfs
    /\ loss = init_loss_func(conf).self
    /\ raised = "none"
    /\ \E B \in 1..MaxBatch : InitBatch(B)
    /\ args = NoArgs
    /\ ret = NoRet
    /\ pc = "ready"

get_names_scalefactors(self) ==
    CASE self.class = "PixelWise" -> PixelWise_get_names_scalefactors(self)
      [] self.class = "GapWise" -> GapWise_get_names_scalefactors(self)
      [] self.class = "PlaneWise" -> PlaneWise_get_names_scalefactors(self)

Call_get_names_scalefactors ==
    /\ pc = "ready" /\ loss.class \in {"PixelWise", "GapWise", "PlaneWise"}
    /\ ret' = [kind |-> "get_names_scalefactors", names |-> get_names_scalefactors(loss)]
    /\ pc' = "get_names_scalefactors"
    /\ UNCHANGED <<conf, loss, raised, s_pred, s_in, s_target, data, args>>

Next == Call_calc_loss \/ Call_get_names_scalefactors

Spec == Init /\ [][Next]_vars

\* C6: for a PixelWise, GapWise or PlaneWise instance and any batch, the keys
\* of the breakdown calc_loss returns are exactly the names whose scale factor
\* in get_names_scalefactors is not zero.
C6_KeysAreEnabledTerms ==
    (pc = "calc_loss" /\ raised = "none") =>
        LET sf == get_names_scalefactors(loss)
        IN  DOMAIN ret.losses = {name \in DOMAIN sf : sf[name] # 0}

C6_Witness ==
    /\ pc = "calc_loss" /\ raised = "none"
    /\ loss.class = "GapWise"
    /\ DOMAIN ret.losses = {"infill", "x_gaps_npixel"}
    /\ loss.lambda_loss_infill_zero = 0
    /\ ret.losses["infill"] # Zero

-----------------------------------------------------------------------------
(* Direct construction: properties                                          *)

\* the criterion attributes of an instance
Criteria(self) ==
    CASE self.class = "PixelWise" -> {self.crit, self.crit_sumreduction}
      [] self.class = "GapWise" ->
            {self.crit_adc, self.crit_adc_sumreduction, self.crit_npixel,
             self.crit_adc_pixelwise, self.crit_adc_pixelwise_sumreduction}
      [] self.class = "PlaneWise" ->
            {self.crit_adc, self.crit_adc_sumreduction, self.crit_npixel}
      [] OTHER -> {}

\* C11 as stated: constructing a PixelWise, GapWise or PlaneWise directly with
\* a loss_func that the class does not recognise raises at construction, and
\* no instance with an unset criterion is ever produced.
C11_UnknownNameRaises ==
    /\ (pc = "PixelWise" /\ conf["loss_func"] \notin PixelWiseNames)
          => (raised # "none" /\ loss = NoInstance)
    /\ (pc = "GapWise" /\ conf["loss_func"] \notin GapWiseNames)
          => (raised # "none" /\ loss = NoInstance)
    /\ (pc = "PlaneWise" /\ conf["loss_func"] \notin PlaneWiseNames)
          => (raised # "none" /\ loss = NoInstance)
    /\ "unset" \notin Criteria(loss)

\* C12 as stated: a GapWise or a PlaneWise whose npixel weights are all 0 or
\* not given is constructed whether adc_threshold is None, 0 or positive.
C12_NoNpixelNoThresholdError ==
    /\ (BuiltGapWise /\ ~npixel_weight(conf, GapNpixelFields)
            /\ "adc_threshold" \in DOMAIN conf
            /\ conf["adc_threshold"] \in {PyNone, PyNum(0), PyNum(1)})
          => (raised = "none" /\ loss.class = "GapWise")
    /\ (BuiltPlaneWise /\ ~npixel_weight(conf, PlaneNpixelFields)
            /\ "adc_threshold" \in DOMAIN conf
            /\ conf["adc_threshold"] \in {PyNone, PyNum(0), PyNum(1)})
          => (raised = "none" /\ loss.class = "PlaneWise")

-----------------------------------------------------------------------------
(* _get_gap_losses: the coordinate subsets of the ranges                    *)

RangesOf(c) == {k \in DOMAIN ret.gap_coords : c \in ret.gap_coords[k]}

\* C18: the per-range subsets of _get_gap_losses partition the sample's gap
\* coordinates: an infill coordinate whose axis value is a gap marker lies in
\* the subset of exactly one range, any other infill coordinate in none.
C18_RangeSubsetsPartition ==
    (pc = "_get_gap_losses" /\ ~(args.skip_adc /\ args.skip_npixel)) =>
        /\ \A c \in args.infill_coords :
              Cardinality(RangesOf(c)) =
                  (IF c[args.coord_idx + 1] \in args.gaps THEN 1 ELSE 0)
        /\ \A k \in DOMAIN ret.gap_coords : ret.gap_coords[k] \subseteq args.infill_coords

C18_Witness ==
    /\ pc = "_get_gap_losses" /\ ~args.skip_npixel
    /\ args.gaps = {1, 2}
    /\ args.coord_idx = 1
    /\ AxisValues = {1, 3}
    /\ Len(ret.gap_coords) = 1
    /\ ret.gap_coords[1] = {<<0, 1, 0, 1>>}

\* C19: in _get_gap_losses every range has a non-empty coordinate subset and,
\* once the averaging step is reached, there is at least one range: neither
\* the division by the subset size nor the one by the number of ranges divides
\* by zero.
C19_NoEmptyRange ==
    (pc = "_get_gap_losses" /\ ~(args.skip_adc /\ args.skip_npixel)) =>
        /\ \A k \in DOMAIN ret.gap_ranges : ret.gap_coords[k] # {}
        /\ ret.active_gap_coords # {} => Len(ret.gap_ranges) >= 1
        /\ raised = "none"
        /\ IsFinite(ret.adc) /\ IsFinite(ret.npixel)

C19_Witness ==
    /\ pc = "_get_gap_losses" /\ ~args.skip_adc /\ ~args.skip_npixel
    /\ Len(ret.gap_ranges) = 2
    /\ Cardinality(ret.gap_coords[1]) = 1 /\ Cardinality(ret.gap_coords[2]) = 1
    /\ ret.adc = <<1, 2>>

-----------------------------------------------------------------------------
(* Construction with override_opts.                                         *)

\* an option left out of override_opts, or given one of vals
Opt(f, vals) == {<<>>} \cup {[g \in {f} |-> v] : v \in vals}

\* override_opts of the call: any of loss_func, adc_threshold and
\* loss_infill_weight, MaxEnabled being a weight no configuration gives alone
OverrideSettings ==
    {[f \in DOMAIN a \cup DOMAIN b \cup DOMAIN c |->
         IF f \in DOMAIN a THEN a[f] ELSE IF f \in DOMAIN b THEN b[f] ELSE c[f]] :
        a \in Opt("loss_func", {"PixelWise_MSELoss", "GapWise_MSELoss"}),
        b \in Opt("adc_threshold", {PyNone, PyNum(MaxThreshold)}),
        c \in Opt("loss_infill_weight", {0, MaxEnabled})}

InitOverride ==
    /\ \E lf \in {"PixelWise_L1Loss", "GapWise_L1Loss", "PlaneWise_L1Loss"} :
       \E t \in ThresholdSettings :
       \E w \in WeightSettings(<<"loss_infill_weight", "loss_x_gaps_npixel_weight">>) :
          conf = config(lf, t, w)
    /\ loss = NoInstance /\ raised = "none"
    /\ InitTokenBatch
    /\ \E o \in OverrideSettings : args = [kind |-> "construct", override_opts |-> o]
    /\ ret = NoRet
    /\ pc = "init"

NextOverride ==
    \/ New_PixelWise
    \/ New_GapWise
    \/ New_PlaneWise
    \/ New_Chamfer

SpecOverride == InitOverride /\ [][NextOverride]_vars

\* the value a constructor must see for field f: the override if there is
\* one, the configured value otherwise (absent stands for a field not given)
Effective(f, absent) ==
    IF f \in DOMAIN args.override_opts THEN args.override_opts[f]
    ELSE IF f \in DOMAIN conf THEN conf[f]
    ELSE absent

CriterionOf(name) ==
    CASE name \in {"PixelWise_L1Loss", "GapWise_L1Loss", "GapWise_L1Loss_MSELossPixelWise",
                   "PlaneWise_L1Loss"} -> "L1Loss"
      [] name \in {"PixelWise_MSELoss", "GapWise_MSELoss"} -> "MSELoss"
      [] name = "PixelWise_BCEWithLogitsLoss" -> "BCEWithLogitsLoss"

UsesEffectiveFields ==
    (pc \in {"PixelWise", "GapWise", "PlaneWise"} /\ raised = "none") =>
        /\ loss.lambda_loss_infill = Effective("loss_infill_weight", 0)
        /\ loss.lambda_loss_infill_zero = Effective("loss_infill_zero_weight", 0)
        /\ pc = "PixelWise" => loss.crit = CriterionOf(Effective("loss_func", ""))
        /\ (pc = "GapWise" /\ Effective("loss_func", "") \in GapWiseNames)
              => loss.crit_adc = CriterionOf(Effective("loss_func", ""))
        /\ (pc = "PlaneWise" /\ Effective("loss_func", "") \in PlaneWiseNames)
              => loss.crit_adc = CriterionOf(Effective("loss_func", ""))
        /\ pc = "GapWise" =>
              /\ loss.adc_threshold = Effective("adc_threshold", PyNone)
              /\ loss.lambda_loss_x_gaps_npixel = Effective("loss_x_gaps_npixel_weight", 0)
        /\ pc = "PlaneWise" => loss.adc_threshold = Effective("adc_threshold", PyNone)

\* C17: a constructor called with override_opts leaves the configuration it
\* was given as it is, and the instance has the override value of every
\* overridden field and the configured value of every other field.
C17_OverrideOpts ==
    /\ [](UsesEffectiveFields)
    /\ [][conf' = conf /\ args' = args]_vars

C17_Witness ==
    /\ pc = "GapWise" /\ raised = "none"
    /\ DOMAIN args.override_opts = {"loss_func", "loss_infill_weight"}
    /\ conf["loss_func"] = "PixelWise_L1Loss"
    /\ "loss_infill_weight" \in DOMAIN conf
    /\ conf["loss_infill_weight"] = 1
    /\ loss.crit_adc = "MSELoss"
    /\ loss.lambda_loss_infill = MaxEnabled
    /\ loss.lambda_loss_x_gaps_npixel = 2


\* C14: in PlaneWise.calc_loss with a plane term enabled, a batch whose
\* samples have no plane marker on an axis (empty marker set), or whose
\* markers match none of their infill coordinates, does not raise, and the
\* axis's adc and npixel terms that are enabled come out as 0.
PlaneTermEnabled ==
    \E name \in {"x_planes_adc", "x_planes_npixel", "z_planes_adc", "z_planes_npixel"} :
        PlaneWise_lambdas(loss)[name] # 0

NoPlaneMatches(axis) ==
    LET sel == _get_infill_active_coords(s_in, s_target)
        marks == IF axis = "x" THEN data.mask_x ELSE data.mask_z
        idx == IF axis = "x" THEN 2 ELSE 4
    IN  \A i \in 1..Len(marks) :
            marks[i] \cap {c[idx] : c \in BatchRows(sel.infill_coords, i - 1)} = {}

C14_DegenerateSampleIsZero ==
    (pc = "calc_loss" /\ loss.class = "PlaneWise" /\ PlaneTermEnabled) =>
        \A axis \in {"x", "z"} :
            NoPlaneMatches(axis) =>
                /\ raised = "none"
                /\ \A kind \in {"_planes_adc", "_planes_npixel"} :
                      (axis \o kind) \in DOMAIN ret.losses =>
                          ret.losses[axis \o kind] = Zero


\* the markers of sample i on an axis that occur among the sample's infill
\* coordinates
ActiveMarkers(axis, i) ==
    LET sel == _get_infill_coords(s_in, s_target)
        marks == IF axis = "x" THEN data.mask_x[i + 1] ELSE data.mask_z[i + 1]
        idx == IF axis = "x" THEN 2 ELSE 4
    IN  marks \cap {c[idx] : c \in BatchRows(sel.infill_coords, i)}

\* what sample i adds to the list of a gap term: 0 without an active marker,
\* the mean over the sample's gap ranges otherwise
GapContribution(axis, kind, i) ==
    IF ActiveMarkers(axis, i) = {} THEN Zero
    ELSE LET sel == _get_infill_coords(s_in, s_target)
             out == _get_gap_losses(loss, s_pred, s_target,
                        IF axis = "x" THEN data.mask_x[i + 1] ELSE data.mask_z[i + 1],
                        BatchRows(sel.infill_coords, i),
                        IF axis = "x" THEN 1 ELSE 3,
                        kind # "adc", kind # "npixel")
         IN  IF kind = "adc" THEN out.adc ELSE out.npixel

\* C13: in GapWise.calc_loss a sample with no active gap marker on an axis
\* contributes 0 to the adc and to the npixel term of the axis and is still
\* counted: the breakdown value of the term is the sum of the per-sample
\* contributions divided by the full batch size.
C13_InactiveSampleCountsAsZero ==
    (pc = "calc_loss" /\ loss.class = "GapWise" /\ raised = "none") =>
        \A axis \in {"x", "z"} : \A kind \in {"adc", "npixel"} :
            LET name == axis \o "_gaps_" \o kind
            IN  name \in DOMAIN ret.losses =>
                    ret.losses[name] =
                        FDiv(tensor_sum([i \in 0..(BatchSize - 1) |->
                                            GapContribution(axis, kind, i)]),
                             Q(BatchSize))

C13_Witness ==
    /\ pc = "calc_loss" /\ loss.class = "GapWise" /\ raised = "none"
    /\ BatchSize = 2
    /\ ActiveMarkers("x", 0) # {}
    /\ ActiveMarkers("x", 1) = {}
    /\ "x_gaps_adc" \in DOMAIN ret.losses
    /\ ret.losses["x_gaps_adc"] = Frac(1, 2)


\* the configuration field behind a term's scale factor
WeightField(name) == "loss_" \o name \o "_weight"

AllFactorsZero == \A name \in DOMAIN get_names_scalefactors(loss) :
                      get_names_scalefactors(loss)[name] = 0

-----------------------------------------------------------------------------
(* SpecRepeat: one instance, calc_loss called on batch after batch         *)

\* the configurations of the repeated calls: per family, the subsets of two
\* of its terms
RepeatConfs ==
    {config("PixelWise_L1Loss", <<>>, w) :
        w \in WeightSettings(<<"loss_infill_weight", "loss_active_weight">>)}
    \cup {config("GapWise_L1Loss", [adc_threshold |-> PyNum(1)], w) :
        w \in WeightSettings(<<"loss_infill_weight", "loss_x_gaps_adc_weight">>)}
    \cup {config("PlaneWise_L1Loss", [adc_threshold |-> PyNum(1)], w) :
        w \in WeightSettings(<<"loss_infill_weight", "loss_x_planes_adc_weight">>)}

\* the batches of one sample with at most the voxel at x = 1, as (s_pred, s_in,
\* s_target, data), with no marker or with every position marked; a
\* PixelWise instance reads no marker
RepeatBatches(c) ==
    UNION {UNION {{[s_in |-> i, s_pred |-> p, s_target |-> t,
                    data |-> [mask_x |-> <<M>>, mask_z |-> <<M>>]] :
                      p \in FeatureTensors(D), t \in SparserTensors(D),
                      M \in IF c["loss_func"] \in PixelWiseNames
                            THEN {{}} ELSE {{}, 1..MaxCoord}} :
                  i \in [D -> {0, 1}]} :
           D \in SUBSET {v \in Grid(1) : v[2] = 1}}

InitRepeat ==
    /\ conf \in RepeatConfs
    /\ loss = init_loss_func(conf).self
    /\ raised = "none"
    /\ \E b \in RepeatBatches(conf) :
          /\ s_in = b.s_in /\ s_pred = b.s_pred /\ s_target = b.s_target
          /\ data = b.data
    /\ args = NoArgs
    /\ ret = NoRet
    /\ pc = "ready"

\* loss.calc_loss(s_pred, s_in, s_target, data) on the instance's class
calc_loss(self, spred, sin, starget, d) ==
    CASE self.class = "PixelWise" -> PixelWise_calc_loss(self, spred, sin, starget, d)
      [] self.class = "GapWise" -> GapWise_calc_loss(self, spred, sin, starget, d)
      [] self.class = "PlaneWise" -> PlaneWise_calc_loss(self, spred, sin, starget, d)

\* what the caller holds after the call: the exception or the returned pair
returned(out, caller) ==
    [kind |-> "calc_loss", raised |-> out.raised, loss_tot |-> out.loss_tot,
     losses |-> out.losses, calls |-> out.calls, caller |-> caller]

\* a calc_loss that keeps a running total on the instance and returns it
MutantCall_calc_loss_again ==
    /\ pc = "calc_loss"
    /\ \E b \in RepeatBatches(conf) :
          /\ s_in' = b.s_in /\ s_pred' = b.s_pred /\ s_target' = b.s_target
          /\ data' = b.data
          /\ ret' = [returned(calc_loss(loss, b.s_pred, b.s_in, b.s_target, b.data), pc)
                        EXCEPT !.loss_tot = FAdd(@, ret.loss_tot)]
    /\ raised' = ret'.raised
    /\ args' = [kind |-> "calc_loss", before |-> ret.loss_tot]
    /\ pc' = "calc_loss"
    /\ UNCHANGED <<conf, loss>>

\* a further call on the same instance with the next batch; args keeps the
\* total the call before returned
Call_calc_loss_again ==
    /\ pc = "calc_loss"
    /\ \E b \in RepeatBatches(conf) :
          /\ s_in' = b.s_in /\ s_pred' = b.s_pred /\ s_target' = b.s_target
          /\ data' = b.data
          /\ ret' = returned(calc_loss(loss, b.s_pred, b.s_in, b.s_target, b.data), pc)
    /\ raised' = ret'.raised
    /\ args' = [kind |-> "calc_loss", before |-> ret.loss_tot]
    /\ pc' = "calc_loss"
    /\ UNCHANGED <<conf, loss>>

NextRepeat == Call_calc_loss \/ Call_calc_loss_again

SpecRepeat == InitRepeat /\ [][NextRepeat]_vars

\* the instance is as its constructor left it, and the result held is the one
\* a newly constructed instance returns for the inputs of the call
AsFirstCall ==
    (pc = "calc_loss") =>
        /\ loss = init_loss_func(conf).self
        /\ Criteria(loss) = Criteria(init_loss_func(conf).self)
        /\ get_names_scalefactors(loss) = get_names_scalefactors(init_loss_func(conf).self)
        /\ LET first == calc_loss(init_loss_func(conf).self, s_pred, s_in, s_target, data)
           IN  /\ raised = first.raised
               /\ ret.loss_tot = first.loss_tot
               /\ ret.losses = first.losses

=============================================================================
